---- MODULE Spec2Model ----
(***************************************************************************)
(* FuDeviceList (src/src/fu-device-list.c): the list of FuDeviceItem, the  *)
(* replug debounce driven by GLib timeout sources, the three signals and   *)
(* the lookups by GUID and by (abbreviated) device ID.                     *)
(*                                                                         *)
(* Everything runs on one GLib main loop, so each public function and each *)
(* timeout callback is one atomic step.  Time is abstracted: an armed      *)
(* timeout source may be dispatched at any later step, or never be reached *)
(* because the source was removed first.  Signal handlers are outside the  *)
(* file; here they observe the emission and do not call back into the list.*)
(***************************************************************************)
EXTENDS Integers, Sequences, FiniteSets

(* ------------------------------ bounds --------------------------------- *)

\* fu_device_list_add / fu_device_list_remove calls in one run of Spec
MaxCalls == 4

\* add / remove / lookup calls in one run of SpecFind
MaxFindCalls == 3

\* add / remove calls in one run of SpecOrder
MaxOrderCalls == 5

(* --------------------------- the FuDevice side -------------------------- *)

\* FuDevice objects, compared by address
Devices == {"D1", "D2"}

\* with the third device of the runs that need three items in the array
Devices3 == Devices \cup {"D3"}

\* the NULL FuDevice* a failed lookup returns
NoDevice == "NULL"

\* C strings are sequences of character codes; the NULL char* is encoded as
\* the one sequence no C string can be (a NUL inside the text)
NullStr == <<0>>

Str_abcdef == <<97, 98, 99, 100, 101, 102>>
Str_abcxxx == <<97, 98, 99, 120, 120, 120>>
Str_abcd == <<97, 98, 99, 100>>
Str_abc == <<97, 98, 99>>
Str_ab == <<97, 98>>
Str_b == <<98>>
Str_empty == << >>

\* values fu_device_get_remove_delay can report, in ms
Delays == {0, 200}

Guids == {"G1", "G2", "GX"}

VARIABLES
    devices,            \* self->devices: sequence of FuDeviceItem
    sources,            \* timeout sources attached to the main context
    next_item,          \* the address g_new0 hands out next
    next_source_id,     \* the id g_timeout_add hands out next
    events,             \* signals emitted so far, in order
    dev_id,             \* fu_device_get_id of each device
    dev_equivalent_id,  \* fu_device_get_equivalent_id of each device
    dev_guids,          \* the GUIDs fu_device_has_guid answers for
    dev_remove_delay,   \* fu_device_get_remove_delay of each device
    dev_flags,          \* the flags of each device
    set_flags_calls,    \* number of fu_device_set_flags calls per device
    calls,              \* add / remove calls made so far, in order
    alive,              \* the FuDeviceList has not been finalized
    uaf,                \* a timeout callback ran on a freed FuDeviceItem
    result,             \* what the last lookup call returned
    snapshot,           \* the array the last fu_device_list_get_all call returned
    emitting            \* the g_signal_emit a handler is running in, if any

vars == <<devices, sources, next_item, next_source_id, events, dev_id,
          dev_equivalent_id, dev_guids, dev_remove_delay, dev_flags,
          set_flags_calls, calls, alive, uaf, result, snapshot, emitting>>

dev_vars == <<dev_id, dev_equivalent_id, dev_guids>>

caller_vars == <<snapshot, emitting>>

(* ------------------------------ helpers -------------------------------- *)

Signal(sig, device) == [sig |-> sig, device |-> device]

Call(op, device, delay) == [op |-> op, device |-> device, delay |-> delay]

NoResult ==
    [fn |-> "none", device_id |-> << >>, guid |-> "", code |-> "none", device |-> NoDevice]

\* fu_device_list_get_all returned; the array itself is in snapshot
GetAllResult ==
    [fn |-> "get_all", device_id |-> << >>, guid |-> "", code |-> "OK", device |-> NoDevice]

\* no signal is being delivered
NoEmission == [sig |-> "none", device |-> NoDevice, item |-> 0, source |-> 0]

\* g_signal_emit of ::added
fu_device_list_emit_device_added(evs, device) == Append(evs, Signal("added", device))

\* g_signal_emit of ::removed
fu_device_list_emit_device_removed(evs, device) == Append(evs, Signal("removed", device))

\* g_signal_emit of ::changed
fu_device_list_emit_device_changed(evs, device) == Append(evs, Signal("changed", device))

\* g_source_remove: the source with this id is destroyed and never dispatched
g_source_remove(srcs, id) == {s \in srcs : s.id # id}

\* g_timeout_add: a new source with a fresh id, carrying the item as user_data
g_timeout_add(srcs, id, item_ptr) == srcs \cup {[id |-> id, item |-> item_ptr]}

RECURSIVE find_by_device_from(_, _, _)
find_by_device_from(devs, device, i) ==
    IF i > Len(devs) THEN 0
    ELSE IF devs[i].device = device THEN i
    ELSE find_by_device_from(devs, device, i + 1)

\* the scan started one element late
fu_device_list_find_by_device_skip_first(devs, device) == find_by_device_from(devs, device, 2)

\* index of the first item holding this device, 0 for NULL
fu_device_list_find_by_device(devs, device) == find_by_device_from(devs, device, 1)

RECURSIVE find_by_ptr_from(_, _, _)
find_by_ptr_from(devs, ptr, i) ==
    IF i > Len(devs) THEN 0
    ELSE IF devs[i].ptr = ptr THEN i
    ELSE find_by_ptr_from(devs, ptr, i + 1)

RemoveAt(s, i) == SubSeq(s, 1, i - 1) \o SubSeq(s, i + 1, Len(s))

\* the free func that forgets the timeout of the item
fu_device_list_item_free_keep_source(srcs, item) == srcs

\* fu_device_list_item_free: an item that still has a timeout removes it
fu_device_list_item_free(srcs, item) ==
    IF item.remove_id # 0 THEN g_source_remove(srcs, item.remove_id) ELSE srcs

\* g_ptr_array_remove_fast: the last element is moved into the gap
g_ptr_array_remove_fast(devs, ptr) ==
    LET i == find_by_ptr_from(devs, ptr, 1) IN
    IF i = 0 THEN devs
    ELSE IF i = Len(devs) THEN SubSeq(devs, 1, Len(devs) - 1)
    ELSE SubSeq([devs EXCEPT ![i] = devs[Len(devs)]], 1, Len(devs) - 1)

\* g_ptr_array_remove: drops the first element with this address
g_ptr_array_remove(devs, ptr) ==
    LET i == find_by_ptr_from(devs, ptr, 1) IN
    IF i = 0 THEN devs ELSE RemoveAt(devs, i)

\* the free func of self->devices applied to the element g_ptr_array_remove drops
g_ptr_array_remove_free(devs, srcs, ptr) ==
    LET i == find_by_ptr_from(devs, ptr, 1) IN
    IF i = 0 THEN srcs ELSE fu_device_list_item_free(srcs, devs[i])

(* ------------------------------ lookups -------------------------------- *)

\* what a lookup hands back: the device, or NULL with the GError code
Found(device) == [code |-> "OK", device |-> device]

Failed(code) == [code |-> code, device |-> NoDevice]

\* the loop that stops one item early
fu_device_list_get_all_short(devs) == [i \in 1..(Len(devs) - 1) |-> devs[i].device]

\* fu_device_list_get_all: a new array with one reference per item, in order
fu_device_list_get_all(devs) == [i \in 1..Len(devs) |-> devs[i].device]

\* fu_device_has_guid
fu_device_has_guid(device, guid) == guid \in dev_guids[device]

RECURSIVE find_by_guid_from(_, _, _)
find_by_guid_from(devs, guid, i) ==
    IF i > Len(devs) THEN Failed("FWUPD_ERROR_NOT_FOUND")
    ELSE IF fu_device_has_guid(devs[i].device, guid) THEN Found(devs[i].device)
    ELSE find_by_guid_from(devs, guid, i + 1)

\* the scan that keeps going after a match and returns the last one
RECURSIVE find_by_guid_last_from(_, _, _, _)
find_by_guid_last_from(devs, guid, i, ret) ==
    IF i > Len(devs) THEN ret
    ELSE find_by_guid_last_from(devs, guid, i + 1,
                                IF fu_device_has_guid(devs[i].device, guid)
                                THEN Found(devs[i].device) ELSE ret)

fu_device_list_find_by_guid_last(devs, guid) ==
    find_by_guid_last_from(devs, guid, 1, Failed("FWUPD_ERROR_NOT_FOUND"))

fu_device_list_find_by_guid(devs, guid) == find_by_guid_from(devs, guid, 1)

\* the character at 1-based position i of a C string, NUL past its end
CharAt(s, i) == IF i <= Len(s) THEN s[i] ELSE 0

strlen(s) == Len(s)

RECURSIVE strncmp_from(_, _, _, _)
strncmp_from(s1, s2, n, i) ==
    IF i > n THEN 0
    ELSE IF CharAt(s1, i) # CharAt(s2, i) THEN CharAt(s1, i) - CharAt(s2, i)
    ELSE IF CharAt(s1, i) = 0 THEN 0
    ELSE strncmp_from(s1, s2, n, i + 1)

\* strncmp: compares at most n characters, stopping at a NUL
strncmp(s1, s2, n) == strncmp_from(s1, s2, n, 1)

\* the ids[] array built for one item: id, equivalent id, NULL terminator
find_by_id_ids(device) == <<dev_id[device], dev_equivalent_id[device], NullStr>>

\* one identifier matched: a second match of any kind sets multiple_matches
find_by_id_match(acc, item_tmp) ==
    [item |-> item_tmp, multiple_matches |-> acc.multiple_matches \/ acc.item # 0]

\* the inner loop: for (j = 0; ids[j] != NULL; j++)
RECURSIVE find_by_id_inner(_, _, _, _, _)
find_by_id_inner(ids, j, device_id, item_tmp, acc) ==
    IF ids[j] = NullStr THEN acc
    ELSE find_by_id_inner(ids, j + 1, device_id, item_tmp,
                          IF strncmp(ids[j], device_id, strlen(device_id)) = 0
                          THEN find_by_id_match(acc, item_tmp)
                          ELSE acc)

\* the outer loop over self->devices
RECURSIVE find_by_id_outer(_, _, _, _)
find_by_id_outer(devs, i, device_id, acc) ==
    IF i > Len(devs) THEN acc
    ELSE find_by_id_outer(devs, i + 1, device_id,
                          find_by_id_inner(find_by_id_ids(devs[i].device), 1,
                                           device_id, i, acc))

fu_device_list_find_by_id(devs, device_id) ==
    LET acc == find_by_id_outer(devs, 1, device_id,
                                [item |-> 0, multiple_matches |-> FALSE])
    IN  IF acc.item = 0 THEN Failed("FWUPD_ERROR_NOT_FOUND")
        ELSE IF acc.multiple_matches THEN Failed("FWUPD_ERROR_NOT_SUPPORTED")
        ELSE Found(devs[acc.item].device)

(* -------------------------- reading the state -------------------------- *)

\* the device has an item in the list
InList(devs, d) == \E i \in DOMAIN devs : devs[i].device = d

\* the device has an item whose remove_id is set
Pending(devs, d) == \E i \in DOMAIN devs : devs[i].device = d /\ devs[i].remove_id # 0

\* the source carries an item of the list that holds this device
SourceOf(devs, src, d) == \E i \in DOMAIN devs : devs[i].ptr = src.item /\ devs[i].device = d

\* the sources whose user_data is an item holding this device
SourcesOf(devs, srcs, d) == {src \in srcs : SourceOf(devs, src, d)}

EventsOf(evs, d) == SelectSeq(evs, LAMBDA e : e.device = d)

CallsOf(cs, d) == SelectSeq(cs, LAMBDA c : c.device = d)

OpsOf(cs, d) == [i \in 1..Len(CallsOf(cs, d)) |-> CallsOf(cs, d)[i].op]

SigsOf(evs, d) == [i \in 1..Len(EventsOf(evs, d)) |-> EventsOf(evs, d)[i].sig]

\* this step is the call op(d)
IsCall(op, d) == calls' = Append(calls, Call(op, d, dev_remove_delay[d]))

\* this step is an add or a remove call on d
CallOn(d) == IsCall("add", d) \/ IsCall("remove", d)

(* ------------------------------- Init ---------------------------------- *)

InitList ==
    /\ devices = << >>
    /\ sources = {}
    /\ next_item = 1
    /\ next_source_id = 1
    /\ events = << >>
    /\ calls = << >>
    /\ alive = TRUE
    /\ uaf = FALSE
    /\ result = NoResult
    /\ snapshot = << >>
    /\ emitting = NoEmission
    /\ dev_flags = [d \in Devices3 |-> "FWUPD_DEVICE_FLAG_UPDATABLE"]
    /\ set_flags_calls = [d \in Devices3 |-> 0]

\* the two devices of the replug scenarios; the remove delay of each is free
Init ==
    /\ InitList
    /\ dev_id = [d \in Devices3 |-> IF d = "D1" THEN Str_abcdef
                                     ELSE IF d = "D2" THEN Str_abcxxx ELSE Str_b]
    /\ dev_equivalent_id = [d \in Devices3 |-> IF d = "D2" THEN Str_abcd ELSE NullStr]
    /\ dev_guids = [d \in Devices3 |-> IF d = "D1" THEN {"G1"} ELSE {"G1", "G2"}]
    /\ \E delay \in [Devices -> Delays] :
          dev_remove_delay = [d \in Devices3 |-> IF d \in Devices THEN delay[d] ELSE 200]

(* ----------------------- fu_device_list_remove ------------------------- *)

\* the repeated remove that leaves the old source attached
remove_cancel_pending_skip(srcs, item) == srcs

\* "ensure never fired if the remove delay is changed"
remove_cancel_pending(srcs, item) ==
    IF item.remove_id > 0 THEN g_source_remove(srcs, item.remove_id) ELSE srcs

\* the delayed branch without its return: the code below it runs as well
remove_delayed_fallthrough(idx) ==
    LET item == [devices[idx] EXCEPT !.remove_id = next_source_id]
        srcs == g_timeout_add(remove_cancel_pending(sources, devices[idx]),
                              next_source_id, item.ptr)
        devs == [devices EXCEPT ![idx] = item]
    IN  /\ dev_flags' = [dev_flags EXCEPT ![item.device] = "FWUPD_DEVICE_FLAG_NONE"]
        /\ set_flags_calls' = [set_flags_calls EXCEPT ![item.device] = @ + 1]
        /\ next_source_id' = next_source_id + 1
        /\ events' = fu_device_list_emit_device_removed(events, item.device)
        /\ devices' = g_ptr_array_remove(devs, item.ptr)
        /\ sources' = g_ptr_array_remove_free(devs, srcs, item.ptr)
        /\ UNCHANGED next_item

\* "delay the removal and check for replug"
remove_delayed(idx) ==
    LET item == devices[idx]
        srcs == remove_cancel_pending(sources, item)
    IN  /\ dev_flags' = [dev_flags EXCEPT ![item.device] = "FWUPD_DEVICE_FLAG_NONE"]
        /\ set_flags_calls' = [set_flags_calls EXCEPT ![item.device] = @ + 1]
        /\ devices' = [devices EXCEPT ![idx].remove_id = next_source_id]
        /\ sources' = g_timeout_add(srcs, next_source_id, item.ptr)
        /\ next_source_id' = next_source_id + 1
        /\ UNCHANGED <<events, next_item>>

\* the immediate removal that signals but leaves the item in the array
remove_now_keep_item(idx) ==
    LET item == [devices[idx] EXCEPT !.remove_id = 0] IN
    /\ events' = fu_device_list_emit_device_removed(events, item.device)
    /\ devices' = [devices EXCEPT ![idx] = item]
    /\ sources' = remove_cancel_pending(sources, devices[idx])
    /\ UNCHANGED <<dev_flags, set_flags_calls, next_source_id, next_item>>

\* the immediate removal that clears remove_id without removing the source
remove_now_keep_source(idx) ==
    LET item == [devices[idx] EXCEPT !.remove_id = 0]
        devs == [devices EXCEPT ![idx] = item]
    IN  /\ events' = fu_device_list_emit_device_removed(events, item.device)
        /\ devices' = g_ptr_array_remove(devs, item.ptr)
        /\ sources' = g_ptr_array_remove_free(devs, sources, item.ptr)
        /\ UNCHANGED <<dev_flags, set_flags_calls, next_source_id, next_item>>

\* "remove right now"
remove_now(idx) ==
    LET item == [devices[idx] EXCEPT !.remove_id = 0]
        srcs == remove_cancel_pending(sources, devices[idx])
        devs == [devices EXCEPT ![idx] = item]
    IN  /\ events' = fu_device_list_emit_device_removed(events, item.device)
        /\ devices' = g_ptr_array_remove(devs, item.ptr)
        /\ sources' = g_ptr_array_remove_free(devs, srcs, item.ptr)
        /\ UNCHANGED <<dev_flags, set_flags_calls, next_source_id, next_item>>

\* the signal emitted before the item is looked at
remove_not_found_emits(device) ==
    /\ events' = fu_device_list_emit_device_removed(events, device)
    /\ UNCHANGED <<devices, sources, dev_flags, set_flags_calls, next_source_id, next_item>>

\* "check the device already exists": not found, return
remove_not_found(device) ==
    UNCHANGED <<devices, sources, events, dev_flags, set_flags_calls,
                next_source_id, next_item>>

\* the delay test written >= 0: every removal is delayed
fu_device_list_remove_always_delayed(device) ==
    LET idx == fu_device_list_find_by_device(devices, device) IN
    IF idx = 0 THEN remove_not_found(device) ELSE remove_delayed(idx)

\* fu_device_set_flags called before the delay is tested
fu_device_list_remove_flags_always(device) ==
    LET idx == fu_device_list_find_by_device(devices, device) IN
    IF idx = 0
    THEN remove_not_found(device)
    ELSE IF dev_remove_delay[devices[idx].device] > 0
    THEN remove_delayed(idx)
    ELSE LET item == [devices[idx] EXCEPT !.remove_id = 0]
             srcs == remove_cancel_pending(sources, devices[idx])
             devs == [devices EXCEPT ![idx] = item]
         IN  /\ dev_flags' = [dev_flags EXCEPT ![item.device] = "FWUPD_DEVICE_FLAG_NONE"]
             /\ set_flags_calls' = [set_flags_calls EXCEPT ![item.device] = @ + 1]
             /\ events' = fu_device_list_emit_device_removed(events, item.device)
             /\ devices' = g_ptr_array_remove(devs, item.ptr)
             /\ sources' = g_ptr_array_remove_free(devs, srcs, item.ptr)
             /\ UNCHANGED <<next_source_id, next_item>>

fu_device_list_remove(device) ==
    LET idx == fu_device_list_find_by_device(devices, device) IN
    IF idx = 0
    THEN remove_not_found(device)
    ELSE IF dev_remove_delay[devices[idx].device] > 0
    THEN remove_delayed(idx)
    ELSE remove_now(idx)

(* ------------------------- fu_device_list_add -------------------------- *)

\* the re-add that clears remove_id without removing the source
add_existing_keep_source(idx, device) ==
    /\ sources' = sources
    /\ devices' = [devices EXCEPT ![idx].remove_id = 0]
    /\ events' = fu_device_list_emit_device_changed(events, device)
    /\ UNCHANGED next_item

\* the re-add that removes the source but leaves remove_id set
add_existing_keep_remove_id(idx, device) ==
    /\ sources' = IF devices[idx].remove_id # 0
                  THEN g_source_remove(sources, devices[idx].remove_id)
                  ELSE sources
    /\ devices' = devices
    /\ events' = fu_device_list_emit_device_changed(events, device)
    /\ UNCHANGED next_item

\* the re-add that removes every attached timeout source
add_existing_cancel_all(idx, device) ==
    /\ sources' = {}
    /\ devices' = [devices EXCEPT ![idx].remove_id = 0]
    /\ events' = fu_device_list_emit_device_changed(events, device)
    /\ UNCHANGED next_item

\* "found existing device, reusing item"
add_existing(idx, device) ==
    LET item == devices[idx] IN
    /\ sources' = IF item.remove_id # 0
                  THEN g_source_remove(sources, item.remove_id)
                  ELSE sources
    /\ devices' = [devices EXCEPT ![idx].remove_id = 0]
    /\ events' = fu_device_list_emit_device_changed(events, device)
    /\ UNCHANGED next_item

\* "add helper"
add_new(device) ==
    /\ devices' = Append(devices, [ptr |-> next_item, device |-> device, remove_id |-> 0])
    /\ next_item' = next_item + 1
    /\ events' = fu_device_list_emit_device_added(events, device)
    /\ UNCHANGED sources

\* the reuse branch without its return: the add helper runs as well
fu_device_list_add_no_return(device) ==
    LET idx == fu_device_list_find_by_device(devices, device)
        srcs == IF idx # 0 /\ devices[idx].remove_id # 0
                THEN g_source_remove(sources, devices[idx].remove_id)
                ELSE sources
        devs == IF idx # 0 THEN [devices EXCEPT ![idx].remove_id = 0] ELSE devices
        evs == IF idx # 0 THEN fu_device_list_emit_device_changed(events, device)
               ELSE events
    IN  /\ sources' = srcs
        /\ devices' = Append(devs, [ptr |-> next_item, device |-> device, remove_id |-> 0])
        /\ next_item' = next_item + 1
        /\ events' = fu_device_list_emit_device_added(evs, device)
        /\ UNCHANGED <<dev_flags, set_flags_calls, next_source_id>>

fu_device_list_add(device) ==
    LET idx == fu_device_list_find_by_device(devices, device) IN
    /\ IF idx # 0 THEN add_existing(idx, device) ELSE add_new(device)
    /\ UNCHANGED <<dev_flags, set_flags_calls, next_source_id>>

(* --------------- fu_device_list_device_delayed_remove_cb --------------- *)

\* the callback that signals but leaves the item in the array
delayed_remove_item_keep_item(src, idx) ==
    /\ events' = fu_device_list_emit_device_removed(events, devices[idx].device)
    /\ devices' = [devices EXCEPT ![idx].remove_id = 0]
    /\ sources' = sources \ {src}
    /\ UNCHANGED uaf

\* the callback that returns G_SOURCE_CONTINUE: its source stays attached
delayed_remove_item_continue(src, idx) ==
    LET item == [devices[idx] EXCEPT !.remove_id = 0]
        devs == [devices EXCEPT ![idx] = item]
    IN  /\ events' = fu_device_list_emit_device_removed(events, item.device)
        /\ devices' = g_ptr_array_remove(devs, item.ptr)
        /\ sources' = g_ptr_array_remove_free(devs, sources, item.ptr)
        /\ UNCHANGED uaf

\* the callback on a live item: "no longer valid", "just remove now"
delayed_remove_item(src, idx) ==
    LET item == [devices[idx] EXCEPT !.remove_id = 0]
        devs == [devices EXCEPT ![idx] = item]
    IN  /\ events' = fu_device_list_emit_device_removed(events, item.device)
        /\ devices' = g_ptr_array_remove(devs, item.ptr)
        /\ sources' = g_ptr_array_remove_free(devs, sources, item.ptr) \ {src}
        /\ UNCHANGED uaf

\* the callback on user_data that was freed: the reads of item->self and
\* item->device are undefined, so any device may be signalled, or none
delayed_remove_dangling(src) ==
    /\ uaf' = TRUE
    /\ events' \in {events} \cup
                   {fu_device_list_emit_device_removed(events, d) : d \in Devices}
    /\ sources' = sources \ {src}
    /\ UNCHANGED devices

\* G_SOURCE_REMOVE: the source is destroyed once the callback returns
fu_device_list_device_delayed_remove_cb(src) ==
    LET idx == find_by_ptr_from(devices, src.item, 1) IN
    /\ IF idx # 0 THEN delayed_remove_item(src, idx) ELSE delayed_remove_dangling(src)
    /\ UNCHANGED <<dev_flags, set_flags_calls, next_source_id, next_item>>

(* ----------------------- fu_device_list_finalize ----------------------- *)

RECURSIVE free_all(_, _, _)
free_all(devs, srcs, i) ==
    IF i > Len(devs) THEN srcs
    ELSE free_all(devs, fu_device_list_item_free(srcs, devs[i]), i + 1)

\* g_ptr_array_unref frees every item with fu_device_list_item_free
fu_device_list_finalize ==
    /\ sources' = free_all(devices, sources, 1)
    /\ devices' = << >>
    /\ alive' = FALSE

(* ------------------------------ actions -------------------------------- *)

Add(d) ==
    /\ alive
    /\ fu_device_list_add(d)
    /\ calls' = Append(calls, Call("add", d, dev_remove_delay[d]))
    /\ result' = NoResult
    /\ UNCHANGED <<dev_vars, dev_remove_delay, alive, uaf, caller_vars>>

Remove(d) ==
    /\ alive
    /\ fu_device_list_remove(d)
    /\ calls' = Append(calls, Call("remove", d, dev_remove_delay[d]))
    /\ result' = NoResult
    /\ UNCHANGED <<dev_vars, dev_remove_delay, alive, uaf, caller_vars>>

\* the main loop dispatches an armed timeout source
TimeoutDispatch(src) ==
    /\ src \in sources
    /\ fu_device_list_device_delayed_remove_cb(src)
    /\ result' = NoResult
    /\ UNCHANGED <<dev_vars, dev_remove_delay, calls, alive, caller_vars>>

\* the device changes its own remove delay (fu_device_set_remove_delay)
DeviceSetRemoveDelay(d, delay) ==
    /\ alive
    /\ dev_remove_delay[d] # delay
    /\ dev_remove_delay' = [dev_remove_delay EXCEPT ![d] = delay]
    /\ UNCHANGED <<devices, sources, next_item, next_source_id, events, dev_vars,
                   dev_flags, set_flags_calls, calls, alive, uaf, result, caller_vars>>

\* the last reference to the list is dropped
Finalize ==
    /\ alive
    /\ fu_device_list_finalize
    /\ result' = NoResult
    /\ UNCHANGED <<next_item, next_source_id, events, dev_vars, dev_remove_delay,
                   dev_flags, set_flags_calls, calls, uaf, caller_vars>>

Next ==
    \/ \E d \in Devices : Len(calls) < MaxCalls /\ Add(d)
    \/ \E d \in Devices : Len(calls) < MaxCalls /\ Remove(d)
    \/ \E src \in sources : TimeoutDispatch(src)
    \/ \E d \in Devices, delay \in Delays : DeviceSetRemoveDelay(d, delay)
    \/ Finalize

Spec == Init /\ [][Next]_vars

\* the main loop does not starve an armed timeout source
FairSpec ==
    Spec /\ \A d \in Devices :
                WF_vars(\E src \in sources : SourceOf(devices, src, d) /\ TimeoutDispatch(src))

(* ------------------ the lookups on lists of any devices ---------------- *)

IdStrings == {Str_abcdef, Str_abcxxx, Str_b}

EquivalentIdStrings == {NullStr, Str_abcd, Str_b}

Queries == {Str_empty, Str_abc, Str_abcd, Str_b}

\* devices with any of the identifiers above; D1 debounces, D2 does not
InitFind ==
    /\ InitList
    /\ \E id \in [Devices -> IdStrings] :
          dev_id = [d \in Devices3 |-> IF d \in Devices THEN id[d] ELSE Str_b]
    /\ \E id \in [Devices -> EquivalentIdStrings] :
          dev_equivalent_id = [d \in Devices3 |-> IF d \in Devices THEN id[d] ELSE NullStr]
    /\ dev_guids = [d \in Devices3 |-> IF d = "D1" THEN {"G1"} ELSE {"G1", "G2"}]
    /\ dev_remove_delay = [d \in Devices3 |-> IF d = "D2" THEN 0 ELSE 200]

lookup_frame ==
    UNCHANGED <<devices, sources, next_item, next_source_id, events, dev_vars,
                dev_remove_delay, dev_flags, set_flags_calls, calls, alive, uaf,
                caller_vars>>

FindById(device_id) ==
    /\ alive
    /\ LET ret == fu_device_list_find_by_id(devices, device_id) IN
       result' = [fn |-> "find_by_id", device_id |-> device_id, guid |-> "",
                  code |-> ret.code, device |-> ret.device]
    /\ lookup_frame

FindByGuid(guid) ==
    /\ alive
    /\ LET ret == fu_device_list_find_by_guid(devices, guid) IN
       result' = [fn |-> "find_by_guid", device_id |-> << >>, guid |-> guid,
                  code |-> ret.code, device |-> ret.device]
    /\ lookup_frame

NextFind ==
    \/ \E d \in Devices : Len(calls) < MaxFindCalls /\ Add(d)
    \/ \E d \in Devices : Len(calls) < MaxFindCalls /\ Remove(d)
    \/ \E src \in sources : TimeoutDispatch(src)
    \/ \E q \in Queries : FindById(q)
    \/ \E g \in Guids : FindByGuid(g)

SpecFind == InitFind /\ [][NextFind]_vars

(* -------------------- three devices and get_all ------------------------ *)

\* the devices of Init with fixed delays: D1 and D3 debounce, D2 does not
InitOrder ==
    /\ InitList
    /\ dev_id = [d \in Devices3 |-> IF d = "D1" THEN Str_abcdef
                                     ELSE IF d = "D2" THEN Str_abcxxx ELSE Str_b]
    /\ dev_equivalent_id = [d \in Devices3 |-> IF d = "D2" THEN Str_abcd ELSE NullStr]
    /\ dev_guids = [d \in Devices3 |-> IF d = "D1" THEN {"G1"} ELSE {"G1", "G2"}]
    /\ dev_remove_delay = [d \in Devices3 |-> IF d = "D2" THEN 0 ELSE 200]

GetAll ==
    /\ alive
    /\ snapshot' = fu_device_list_get_all(devices)
    /\ result' = GetAllResult
    /\ UNCHANGED <<devices, sources, next_item, next_source_id, events, dev_vars,
                   dev_remove_delay, dev_flags, set_flags_calls, calls, alive, uaf,
                   emitting>>

NextOrder ==
    \/ \E d \in Devices3 : Len(calls) < MaxOrderCalls /\ Add(d)
    \/ \E d \in Devices3 : Len(calls) < MaxOrderCalls /\ Remove(d)
    \/ \E src \in sources : TimeoutDispatch(src)
    \/ GetAll

SpecOrder == InitOrder /\ [][NextOrder]_vars

(* ------------- signal handlers that call back into the list ------------ *)

\* most add / remove calls in a behaviour of SpecHandlers
MaxHandlerCalls == 4

\* the g_signal_emit a handler is running in; item and source are what the
\* emitting function still has to drop once g_signal_emit has returned
Emission(sig, device, item, source) ==
    [sig |-> sig, device |-> device, item |-> item, source |-> source]

\* "remove right now", as far as the handlers of ::removed
remove_now_emit(idx) ==
    LET item == [devices[idx] EXCEPT !.remove_id = 0] IN
    /\ sources' = remove_cancel_pending(sources, devices[idx])
    /\ devices' = [devices EXCEPT ![idx] = item]
    /\ events' = fu_device_list_emit_device_removed(events, item.device)
    /\ emitting' = Emission("removed", item.device, item.ptr, 0)
    /\ UNCHANGED <<dev_flags, set_flags_calls, next_source_id, next_item>>

\* fu_device_list_remove as far as its g_signal_emit, if it has one
fu_device_list_remove_emit(device) ==
    LET idx == fu_device_list_find_by_device(devices, device) IN
    IF idx = 0
    THEN remove_not_found(device) /\ UNCHANGED emitting
    ELSE IF dev_remove_delay[devices[idx].device] > 0
    THEN remove_delayed(idx) /\ UNCHANGED emitting
    ELSE remove_now_emit(idx)

\* the callback that drops the item before it signals
delayed_remove_emit_after_drop(src, idx) ==
    LET item == [devices[idx] EXCEPT !.remove_id = 0]
        devs == [devices EXCEPT ![idx] = item]
    IN  /\ devices' = g_ptr_array_remove(devs, item.ptr)
        /\ events' = fu_device_list_emit_device_removed(events, item.device)
        /\ emitting' = Emission("removed", item.device, 0, src.id)
        /\ UNCHANGED <<sources, uaf>>

\* the callback on a live item, as far as the handlers of ::removed: the
\* source being dispatched stays attached until the callback returns
delayed_remove_emit(src, idx) ==
    LET item == [devices[idx] EXCEPT !.remove_id = 0] IN
    /\ devices' = [devices EXCEPT ![idx] = item]
    /\ events' = fu_device_list_emit_device_removed(events, item.device)
    /\ emitting' = Emission("removed", item.device, item.ptr, src.id)
    /\ UNCHANGED <<sources, uaf>>

\* the callback as far as its g_signal_emit
fu_device_list_device_delayed_remove_cb_emit(src) ==
    LET idx == find_by_ptr_from(devices, src.item, 1) IN
    /\ IF idx # 0
       THEN delayed_remove_emit(src, idx)
       ELSE delayed_remove_dangling(src) /\ UNCHANGED emitting
    /\ UNCHANGED <<dev_flags, set_flags_calls, next_source_id, next_item>>

\* what follows g_signal_emit: g_ptr_array_remove (self->devices, item) in
\* both removals, then G_SOURCE_REMOVE in the callback; nothing in add
emit_return ==
    /\ devices' = IF emitting.item # 0
                  THEN g_ptr_array_remove(devices, emitting.item)
                  ELSE devices
    /\ sources' = LET srcs == IF emitting.item # 0
                              THEN g_ptr_array_remove_free(devices, sources, emitting.item)
                              ELSE sources
                  IN  {s \in srcs : s.id # emitting.source}
    /\ emitting' = NoEmission

\* fu_device_list_add from the main loop; its g_signal_emit is its last statement
AddEmit(d) ==
    /\ alive
    /\ emitting = NoEmission
    /\ fu_device_list_add(d)
    /\ emitting' = Emission(events'[Len(events')].sig, d, 0, 0)
    /\ calls' = Append(calls, Call("add", d, dev_remove_delay[d]))
    /\ result' = NoResult
    /\ UNCHANGED <<dev_vars, dev_remove_delay, alive, uaf, snapshot>>

\* fu_device_list_remove from the main loop
RemoveEmit(d) ==
    /\ alive
    /\ emitting = NoEmission
    /\ fu_device_list_remove_emit(d)
    /\ calls' = Append(calls, Call("remove", d, dev_remove_delay[d]))
    /\ result' = NoResult
    /\ UNCHANGED <<dev_vars, dev_remove_delay, alive, uaf, snapshot>>

\* the main loop dispatches an armed timeout source; it does not while a
\* handler runs, the handlers here do not iterate the main context
DispatchEmit(src) ==
    /\ src \in sources
    /\ emitting = NoEmission
    /\ fu_device_list_device_delayed_remove_cb_emit(src)
    /\ result' = NoResult
    /\ UNCHANGED <<dev_vars, dev_remove_delay, calls, alive, snapshot>>

\* a handler of the signal being delivered calls fu_device_list_get_all
HandlerGetAll ==
    /\ emitting # NoEmission
    /\ snapshot' = fu_device_list_get_all(devices)
    /\ result' = GetAllResult
    /\ UNCHANGED <<devices, sources, next_item, next_source_id, events, dev_vars,
                   dev_remove_delay, dev_flags, set_flags_calls, calls, alive, uaf,
                   emitting>>

\* a handler of the signal being delivered calls fu_device_list_add; the
\* handlers of the signal this call emits do not call the list again
HandlerAdd(d) ==
    /\ emitting # NoEmission
    /\ fu_device_list_add(d)
    /\ calls' = Append(calls, Call("add", d, dev_remove_delay[d]))
    /\ result' = NoResult
    /\ UNCHANGED <<dev_vars, dev_remove_delay, alive, uaf, caller_vars>>

\* the handlers are done and g_signal_emit returns to the function that called it
EmitReturn ==
    /\ emitting # NoEmission
    /\ emit_return
    /\ result' = NoResult
    /\ UNCHANGED <<next_item, next_source_id, events, dev_vars, dev_remove_delay,
                   dev_flags, set_flags_calls, calls, alive, uaf, snapshot>>

NextHandlers ==
    \/ \E d \in Devices : Len(calls) < MaxHandlerCalls /\ AddEmit(d)
    \/ \E d \in Devices : Len(calls) < MaxHandlerCalls /\ RemoveEmit(d)
    \/ \E src \in sources : DispatchEmit(src)
    \/ HandlerGetAll
    \/ \E d \in Devices : Len(calls) < MaxHandlerCalls /\ HandlerAdd(d)
    \/ EmitReturn

SpecHandlers == Init /\ [][NextHandlers]_vars

(* ======================= properties of the list ======================== *)

(* C1: replug debounce.  When fu_device_list_add(d) runs while d's item has *)
(* a pending removal, the timeout source is removed, remove_id is cleared   *)
(* and the call emits exactly ::changed(d); and from then on, until the     *)
(* next add or remove call on d, no step emits anything for d, however many *)
(* timeouts are dispatched.                                                 *)
C1_ReplugDebounce ==
    [][\A d \in Devices :
          /\ (IsCall("add", d) /\ Pending(devices, d)) =>
                /\ events' = Append(events, Signal("changed", d))
                /\ InList(devices', d)
                /\ ~Pending(devices', d)
                /\ SourcesOf(devices', sources', d) = {}
                /\ \A src \in SourcesOf(devices, sources, d) : src \notin sources'
          /\ ( /\ CallsOf(calls, d) # << >>
               /\ CallsOf(calls, d)[Len(CallsOf(calls, d))].op = "add"
               /\ ~CallOn(d) ) =>
                EventsOf(events', d) = EventsOf(events, d)
      ]_vars

\* add, delayed remove, add inside the window: ::added then ::changed
C1_Witness ==
    \E d \in Devices :
        /\ OpsOf(calls, d) = <<"add", "remove", "add">>
        /\ CallsOf(calls, d)[2].delay > 0
        /\ SigsOf(events, d) = <<"added", "changed">>
        /\ sources = {}
        /\ next_source_id > 1

\* the signals of one device run through absent -added-> live -changed-> live
\* -removed-> absent; anything else is "bad"
RECURSIVE Lifecycle(_, _, _)
Lifecycle(sigs, i, st) ==
    IF i > Len(sigs) THEN st
    ELSE IF st = "absent" /\ sigs[i] = "added" THEN Lifecycle(sigs, i + 1, "live")
    ELSE IF st = "live" /\ sigs[i] = "changed" THEN Lifecycle(sigs, i + 1, "live")
    ELSE IF st = "live" /\ sigs[i] = "removed" THEN Lifecycle(sigs, i + 1, "absent")
    ELSE "bad"

(* C2: for every device the emitted signals match                          *)
(* (added changed* removed)* with a dangling "added changed*" exactly when  *)
(* the device has an item in the list (while the list exists).             *)
C2_EventGrammar ==
    \A d \in Devices :
        LET st == Lifecycle(SigsOf(events, d), 1, "absent") IN
        /\ st # "bad"
        /\ alive => (st = "live" <=> InList(devices, d))

\* a device that went through added, changed, removed and added again
C2_Witness ==
    \E d \in Devices :
        /\ SigsOf(events, d) = <<"added", "changed", "removed", "added">>
        /\ InList(devices, d)

Range(f) == {f[i] : i \in DOMAIN f}

(* C3: fu_device_list_remove(d) on a present d with a remove delay above 0  *)
(* emits nothing and keeps the item: the array holds the same devices in    *)
(* the same order, and fu_device_list_get_all, fu_device_list_find_by_guid  *)
(* and fu_device_list_find_by_id answer as they did before the call; and as *)
(* long as the removal is pending, d is in get_all and is what              *)
(* find_by_id(id of d) returns, and each of its GUIDs is found.             *)
C3_DelayedRemoveKeepsItem ==
    /\ [][\A d \in Devices :
            (IsCall("remove", d) /\ InList(devices, d) /\ dev_remove_delay[d] > 0) =>
                /\ events' = events
                /\ Pending(devices', d)
                /\ fu_device_list_get_all(devices') = fu_device_list_get_all(devices)
                /\ \A q \in Queries \cup Range(dev_id) :
                      fu_device_list_find_by_id(devices', q)
                          = fu_device_list_find_by_id(devices, q)
                /\ \A g \in Guids :
                      fu_device_list_find_by_guid(devices', g)
                          = fu_device_list_find_by_guid(devices, g)
         ]_vars
    /\ [](\A d \in Devices :
            Pending(devices, d) =>
                /\ d \in Range(fu_device_list_get_all(devices))
                /\ fu_device_list_find_by_id(devices, dev_id[d]) = Found(d)
                /\ \A g \in dev_guids[d] :
                      fu_device_list_find_by_guid(devices, g).code = "OK")

\* the last call was a delayed remove of a listed device, still pending
C3_Witness ==
    \E d \in Devices :
        /\ calls # << >>
        /\ calls[Len(calls)] = Call("remove", d, 200)
        /\ Pending(devices, d)
        /\ SourcesOf(devices, sources, d) # {}
        /\ SigsOf(events, d) = <<"added">>
        /\ Len(devices) = 2

(* C4: under a main loop that is fair to armed timeouts a pending removal  *)
(* of d does not stay pending; and it stops being pending only by another   *)
(* add or remove call on d, by the finalization of the list, or by the      *)
(* dispatch of its timeout, which emits exactly ::removed(d) and leaves no  *)
(* item and no source of d.  So with no later call and no finalization the  *)
(* timeout fires.  While d then has no item only a call on d emits for d,   *)
(* so ::removed(d) is emitted once.                                         *)
C4_DelayedRemoveFires ==
    /\ \A d \in Devices : Pending(devices, d) ~> ~Pending(devices, d)
    /\ [][\A d \in Devices :
            /\ (Pending(devices, d) /\ ~Pending(devices', d)) =>
                  \/ CallOn(d)
                  \/ alive /\ ~alive'
                  \/ /\ calls' = calls
                     /\ events' = Append(events, Signal("removed", d))
                     /\ ~InList(devices', d)
                     /\ \A src \in sources' : src.item \notin
                            {devices[i].ptr : i \in {j \in DOMAIN devices :
                                                        devices[j].device = d}}
            /\ (~InList(devices, d) /\ ~CallOn(d)) =>
                  EventsOf(events', d) = EventsOf(events, d)
         ]_vars

\* add, delayed remove, and the timeout ran: ::added then ::removed
C4_Witness ==
    \E d \in Devices :
        /\ OpsOf(calls, d) = <<"add", "remove">>
        /\ CallsOf(calls, d)[2].delay > 0
        /\ SigsOf(events, d) = <<"added", "removed">>
        /\ ~InList(devices, d)
        /\ alive

\* the remove_id of the item of d (0 when d has no item)
RemoveIdOf(devs, d) ==
    IF InList(devs, d)
    THEN devs[CHOOSE i \in DOMAIN devs : devs[i].device = d].remove_id
    ELSE 0

(* C5: fu_device_list_remove(d) with a remove delay above 0 on a d whose    *)
(* removal is already pending removes the old timeout source and arms one   *)
(* new source, without emitting.  In every state each armed source is the   *)
(* one its item's remove_id names, so a superseded source is never          *)
(* dispatched, no callback runs on a freed item, and a dispatch emits one   *)
(* ::removed(d) and leaves no source of that item behind.                   *)
C5_RepeatedRemoveRearms ==
    /\ [][\A d \in Devices :
            /\ (IsCall("remove", d) /\ Pending(devices, d) /\ dev_remove_delay[d] > 0) =>
                  /\ events' = events
                  /\ \A src \in sources : src.id = RemoveIdOf(devices, d) => src \notin sources'
                  /\ RemoveIdOf(devices', d) \notin {0, RemoveIdOf(devices, d)}
                  /\ Cardinality(SourcesOf(devices', sources', d)) = 1
                  /\ \A src \in SourcesOf(devices', sources', d) :
                        src.id = RemoveIdOf(devices', d)
            /\ (calls' = calls /\ alive' = alive
                    /\ EventsOf(events', d) # EventsOf(events, d)) =>
                  /\ Pending(devices, d)
                  /\ EventsOf(events', d) = Append(EventsOf(events, d), Signal("removed", d))
                  /\ ~InList(devices', d)
         ]_vars
    /\ [](/\ ~uaf
          /\ \A src \in sources :
                \E i \in DOMAIN devices :
                    devices[i].ptr = src.item /\ devices[i].remove_id = src.id)

\* add, two delayed removes inside the window, and one ::removed in the end
C5_Witness ==
    \E d \in Devices :
        /\ OpsOf(calls, d) = <<"add", "remove", "remove">>
        /\ CallsOf(calls, d)[2].delay > 0
        /\ CallsOf(calls, d)[3].delay > 0
        /\ SigsOf(events, d) = <<"added", "removed">>
        /\ next_source_id >= 3
        /\ sources = {}

(* C6: fu_device_list_remove(d) on a present d with remove delay 0 emits    *)
(* ::removed(d) in the call, drops the item and arms no timeout (a pending  *)
(* one is removed); and a device whose calls were add, remove, add, remove  *)
(* with delay 0 at both removes has emitted added, removed, added, removed. *)
C6_ImmediateRemove ==
    /\ [][\A d \in Devices :
            (IsCall("remove", d) /\ InList(devices, d) /\ dev_remove_delay[d] = 0) =>
                /\ events' = Append(events, Signal("removed", d))
                /\ ~InList(devices', d)
                /\ Len(devices') = Len(devices) - 1
                /\ sources' \subseteq sources
                /\ \A src \in SourcesOf(devices, sources, d) : src \notin sources'
                /\ next_source_id' = next_source_id
         ]_vars
    /\ [](\A d \in Devices :
            ( /\ OpsOf(calls, d) = <<"add", "remove", "add", "remove">>
              /\ CallsOf(calls, d)[2].delay = 0
              /\ CallsOf(calls, d)[4].delay = 0 ) =>
                SigsOf(events, d) = <<"added", "removed", "added", "removed">>)

\* add, remove, add, remove of one device with delay 0 at both removes
C6_Witness ==
    \E d \in Devices :
        /\ OpsOf(calls, d) = <<"add", "remove", "add", "remove">>
        /\ CallsOf(calls, d)[2].delay = 0
        /\ CallsOf(calls, d)[4].delay = 0
        /\ SigsOf(events, d) = <<"added", "removed", "added", "removed">>
        /\ ~InList(devices, d)

(* C7: fu_device_list_remove(d) on a d that has no item changes nothing:    *)
(* no signal, no timeout source, no fu_device_set_flags call, the same      *)
(* array.                                                                   *)
C7_RemoveAbsentNoop ==
    [][\A d \in Devices :
          (IsCall("remove", d) /\ ~InList(devices, d)) =>
              UNCHANGED <<events, devices, sources, next_source_id, next_item,
                          dev_flags, set_flags_calls>>
      ]_vars

\* remove was called on a device that was never added, next to a listed one
C7_Witness ==
    \E d \in Devices :
        /\ OpsOf(calls, d) = <<"remove">>
        /\ EventsOf(events, d) = << >>
        /\ devices # << >>
        /\ sources # {}
        /\ calls[Len(calls)].device = d

(* C8: fu_device_list_add(d) on a d that is listed with no removal pending  *)
(* emits ::changed(d) and leaves the array and the timeout sources as they  *)
(* were; so add(d); add(d) emits added, changed and ends in the state of a  *)
(* single add(d).                                                           *)
C8_AddIdempotent ==
    /\ [][\A d \in Devices :
            (IsCall("add", d) /\ InList(devices, d) /\ ~Pending(devices, d)) =>
                /\ events' = Append(events, Signal("changed", d))
                /\ UNCHANGED <<devices, sources, next_source_id>>
         ]_vars
    /\ [](\A d \in Devices :
            OpsOf(calls, d) = <<"add", "add">> =>
                /\ SigsOf(events, d) = <<"added", "changed">>
                /\ alive => Cardinality({i \in DOMAIN devices : devices[i].device = d}) = 1
                /\ ~Pending(devices, d))

\* add(d); add(d) next to another listed device with a pending removal
C8_Witness ==
    \E d \in Devices :
        /\ OpsOf(calls, d) = <<"add", "add">>
        /\ SigsOf(events, d) = <<"added", "changed">>
        /\ Len(devices) = 2
        /\ sources # {}

(* C9: no two items of the array hold the same device (nor share an        *)
(* address).                                                                *)
C9_AddressUnique ==
    \A i, j \in DOMAIN devices :
        i # j => devices[i].device # devices[j].device /\ devices[i].ptr # devices[j].ptr

\* two items, after a listed device was added again: once while its removal
\* was pending, once with nothing pending
C9_Witness ==
    /\ Len(devices) = 2
    /\ \E d \in Devices :
          /\ OpsOf(calls, d) \in {<<"add", "add">>, <<"add", "remove", "add">>}
          /\ SigsOf(events, d) = <<"added", "changed">>

\* q is a prefix of the identifier s (a NULL identifier has no prefix)
HasPrefix(s, q) == s # NullStr /\ Len(s) >= Len(q) /\ SubSeq(s, 1, Len(q)) = q

\* the items one of whose identifiers has q as a prefix
MatchingItems(devs, q) ==
    {i \in DOMAIN devs : \/ HasPrefix(dev_id[devs[i].device], q)
                         \/ HasPrefix(dev_equivalent_id[devs[i].device], q)}

(* C10: fu_device_list_find_by_id(q) counts matching items: no item with an *)
(* id or equivalent id prefixed by q gives FWUPD_ERROR_NOT_FOUND, exactly   *)
(* one matching item gives its device even when both of its identifiers     *)
(* match, two or more matching items give the not-unique error.             *)
C10_FindByIdCountsItems ==
    result.fn = "find_by_id" =>
        LET items == MatchingItems(devices, result.device_id) IN
        /\ items = {} => result.code = "FWUPD_ERROR_NOT_FOUND"
        /\ Cardinality(items) = 1 =>
              \A i \in items : /\ result.code = "OK"
                               /\ result.device = devices[i].device
        /\ Cardinality(items) >= 2 => result.code = "FWUPD_ERROR_NOT_SUPPORTED"

(* C11: fu_device_list_find_by_guid(g) returns the device of the first item *)
(* of the array, in insertion order, whose device has GUID g, and NULL with *)
(* FWUPD_ERROR_NOT_FOUND when no item's device has g; the call changes      *)
(* neither the array, nor the timeout sources, nor the signals emitted.     *)
C11_FindByGuidFirst ==
    /\ [](result.fn = "find_by_guid" =>
            LET items == {i \in DOMAIN devices : result.guid \in dev_guids[devices[i].device]}
            IN  /\ items = {} =>
                      result.code = "FWUPD_ERROR_NOT_FOUND" /\ result.device = NoDevice
                /\ items # {} =>
                      /\ result.code = "OK"
                      /\ \E i \in items : /\ \A j \in items : i <= j
                                          /\ result.device = devices[i].device)
    /\ [][(result'.fn = "find_by_guid" /\ result' # result) =>
            UNCHANGED <<devices, sources, events, next_item, next_source_id,
                        dev_flags, set_flags_calls>>]_vars

\* D2 was added before D1, both have G1, and find_by_guid("G1") gave D2
C11_Witness ==
    /\ result.fn = "find_by_guid"
    /\ result.guid = "G1"
    /\ Len(devices) = 2
    /\ devices[1].device = "D2"
    /\ devices[2].device = "D1"
    /\ result.device = "D2"

(* C13: finalizing the list frees every item and removes every pending      *)
(* timeout source: afterwards the array is empty, no source is attached, no *)
(* callback runs on a freed item and no signal is emitted any more.         *)
C13_FinalizeCancelsTimers ==
    /\ [](~alive => devices = << >> /\ sources = {} /\ ~uaf)
    /\ [][~alive => events' = events]_vars
    /\ [][(alive /\ ~alive') => events' = events]_vars

\* the list was finalized while a removal was pending: no ::removed followed
C13_Witness ==
    /\ ~alive
    /\ \E d \in Devices :
          /\ OpsOf(calls, d) = <<"add", "remove">>
          /\ CallsOf(calls, d)[2].delay > 0
          /\ SigsOf(events, d) = <<"added">>
          /\ next_source_id > 1

\* the last add or remove call on d was a remove that read a delay above 0
LastCallDelayedRemove(d) ==
    /\ CallsOf(calls, d) # << >>
    /\ CallsOf(calls, d)[Len(CallsOf(calls, d))].op = "remove"
    /\ CallsOf(calls, d)[Len(CallsOf(calls, d))].delay > 0

(* C14: timer coherence.  While the list exists, the item of d has its      *)
(* remove_id set exactly when the last add or remove call on d was a remove *)
(* with a delay above 0 made while d was listed and its timeout has not     *)
(* fired (the last signal for d is not ::removed); and exactly then a       *)
(* timeout source of that item is attached.                                 *)
C14_TimerCoherence ==
    alive =>
        \A d \in Devices :
            /\ Pending(devices, d) <=>
                  /\ LastCallDelayedRemove(d)
                  /\ SigsOf(events, d) # << >>
                  /\ SigsOf(events, d)[Len(SigsOf(events, d))] # "removed"
            /\ Pending(devices, d) <=> SourcesOf(devices, sources, d) # {}

\* pending again after a replug superseded the first removal
C14_Witness ==
    \E d \in Devices :
        /\ OpsOf(calls, d) = <<"add", "remove", "add", "remove">>
        /\ SigsOf(events, d) = <<"added", "changed">>
        /\ Pending(devices, d)
        /\ next_source_id = 3

(* C15: every attached timeout source is the one named by the remove_id of  *)
(* an item of the array, an item has at most one, and source ids are never  *)
(* handed out again; the dispatch of a source destroys it and drops its     *)
(* item together with every source carrying it.  So no callback runs on a   *)
(* freed item and none runs twice for one removal request.                  *)
C15_NoDoubleFire ==
    /\ [](/\ ~uaf
          /\ \A src \in sources :
                /\ src.id < next_source_id
                /\ \E i \in DOMAIN devices :
                      devices[i].ptr = src.item /\ devices[i].remove_id = src.id
          /\ \A s1, s2 \in sources : s1.item = s2.item => s1 = s2)
    /\ [][\A src \in sources :
            (src \notin sources' /\ calls' = calls /\ alive' = alive) =>
                /\ \A i \in DOMAIN devices' : devices'[i].ptr # src.item
                /\ \A s2 \in sources' : s2.item # src.item /\ s2.id # src.id
                /\ next_source_id' = next_source_id
                /\ Len(events') = Len(events) + 1
         ]_vars

\* one timeout has fired and dropped its item while another is still armed
C15_Witness ==
    /\ alive
    /\ Cardinality(sources) = 1
    /\ next_source_id = 3
    /\ Len(devices) = 1
    /\ \E d \in Devices :
          /\ OpsOf(calls, d) = <<"add", "remove">>
          /\ SigsOf(events, d) = <<"added", "removed">>
          /\ CallsOf(calls, d)[2].delay > 0

(* C16: the delay fu_device_list_remove acts on is the one the device       *)
(* reports during that call: a remove of a listed d leaves a removal        *)
(* pending exactly when that delay is above 0.  When a removal is pending   *)
(* and the delay has become 0, the call removes the old source, emits       *)
(* ::removed(d) and drops the item, and no source of that item stays        *)
(* attached to fire later.                                                  *)
C16_DelayReadAtRemove ==
    [][\A d \in Devices :
          /\ (IsCall("remove", d) /\ InList(devices, d)) =>
                /\ Pending(devices', d) <=> dev_remove_delay[d] > 0
                /\ InList(devices', d) <=> dev_remove_delay[d] > 0
          /\ (IsCall("remove", d) /\ Pending(devices, d) /\ dev_remove_delay[d] = 0) =>
                /\ events' = Append(events, Signal("removed", d))
                /\ sources' = sources \ SourcesOf(devices, sources, d)
                /\ \A src \in sources' : \E i \in DOMAIN devices' :
                      devices'[i].ptr = src.item
      ]_vars

\* added with delay 0, removed with delay 200, removed again with delay 0
C16_Witness ==
    \E d \in Devices :
        /\ OpsOf(calls, d) = <<"add", "remove", "remove">>
        /\ CallsOf(calls, d)[1].delay = 0
        /\ CallsOf(calls, d)[2].delay > 0
        /\ CallsOf(calls, d)[3].delay = 0
        /\ SigsOf(events, d) = <<"added", "removed">>
        /\ set_flags_calls[d] = 1
        /\ sources = {}

(* C17: fu_device_set_flags is called only by a remove of a listed device   *)
(* whose delay is above 0, once per such call, with FWUPD_DEVICE_FLAG_NONE; *)
(* no add, no remove with delay 0, no remove of an unlisted device and no   *)
(* timeout dispatch calls it or changes the flags, so a device keeps        *)
(* FWUPD_DEVICE_FLAG_NONE after a replug.                                   *)
C17_FlagsOnlyDelayedRemove ==
    /\ [][\A d \in Devices :
            LET delayed == IsCall("remove", d) /\ InList(devices, d)
                               /\ dev_remove_delay[d] > 0
            IN  /\ delayed => /\ set_flags_calls'[d] = set_flags_calls[d] + 1
                              /\ dev_flags'[d] = "FWUPD_DEVICE_FLAG_NONE"
                /\ ~delayed => /\ set_flags_calls'[d] = set_flags_calls[d]
                               /\ dev_flags'[d] = dev_flags[d]
         ]_vars
    /\ [](\A d \in Devices :
            /\ set_flags_calls[d] > 0 => dev_flags[d] = "FWUPD_DEVICE_FLAG_NONE"
            /\ set_flags_calls[d] = 0 => dev_flags[d] = "FWUPD_DEVICE_FLAG_UPDATABLE")

\* after a replug the device still has the flags the delayed removal set
C17_Witness ==
    \E d \in Devices :
        /\ OpsOf(calls, d) = <<"add", "remove", "add">>
        /\ SigsOf(events, d) = <<"added", "changed">>
        /\ ~Pending(devices, d)
        /\ set_flags_calls[d] = 1
        /\ dev_flags[d] = "FWUPD_DEVICE_FLAG_NONE"

(* C18: fu_device_list_find_by_id("") matches every identifier: with no     *)
(* item it fails with FWUPD_ERROR_NOT_FOUND, with exactly one item it       *)
(* returns that item's device whether or not it has an equivalent id, with  *)
(* two or more items it fails with the not-unique error.                    *)
C18_EmptyQuery ==
    (result.fn = "find_by_id" /\ result.device_id = Str_empty) =>
        /\ Len(devices) = 0 => result.code = "FWUPD_ERROR_NOT_FOUND"
        /\ Len(devices) = 1 => result.code = "OK" /\ result.device = devices[1].device
        /\ Len(devices) >= 2 => result.code = "FWUPD_ERROR_NOT_SUPPORTED"

\* the addresses of the items of the array, in array order
PtrsOf(devs) == [i \in 1..Len(devs) |-> devs[i].ptr]

\* the items of devs whose address is in ptrs, in array order
ItemsAmong(devs, ptrs) == SelectSeq(devs, LAMBDA item : item.ptr \in ptrs)

(* C12: the array fu_device_list_get_all returns has one entry per item, in *)
(* the order of the items, each listed device exactly once; the items of    *)
(* the array are always in the order they were added, and a step that drops *)
(* an item leaves the others in their order; an add, a remove or a timeout  *)
(* dispatch after the call does not change the returned array.              *)
C12_GetAllSnapshot ==
    /\ [](result.fn = "get_all" =>
            /\ Len(snapshot) = Len(devices)
            /\ \A i \in DOMAIN devices : snapshot[i] = devices[i].device
            /\ \A d \in Devices3 :
                  Cardinality({i \in DOMAIN snapshot : snapshot[i] = d})
                      = IF InList(devices, d) THEN 1 ELSE 0)
    /\ [](\A i, j \in DOMAIN devices : i < j => devices[i].ptr < devices[j].ptr)
    /\ [][PtrsOf(ItemsAmong(devices', Range(PtrsOf(devices))))
              = PtrsOf(ItemsAmong(devices, Range(PtrsOf(devices'))))]_vars
    /\ [][(calls' # calls \/ events' # events \/ devices' # devices) =>
            snapshot' = snapshot]_vars

\* the array returned with three items is still the same after the first
\* item was dropped, and the two others kept their order
C12_Witness ==
    /\ snapshot = <<"D1", "D2", "D3">>
    /\ fu_device_list_get_all(devices) = <<"D2", "D3">>
    /\ SigsOf(events, "D1") = <<"added", "removed">>

(* C20: an add(d), a remove(d) or the dispatch of the timeout of d emits    *)
(* signals for d only and leaves the items of all other devices as they     *)
(* were: the same items with the same remove_id in the same relative order, *)
(* the same timeout sources, the same flags; a replug of d neither removes  *)
(* nor fires the pending timeout of another device.                         *)
C20_PerDeviceIsolation ==
    [][\A d \in Devices3 :
          ( \/ CallOn(d)
            \/ /\ calls' = calls
               /\ \E src \in sources : SourceOf(devices, src, d) /\ src \notin sources' ) =>
              /\ \A e \in Devices3 \ {d} :
                    /\ EventsOf(events', e) = EventsOf(events, e)
                    /\ SourcesOf(devices', sources', e) = SourcesOf(devices, sources, e)
                    /\ SourcesOf(devices, sources, e) \subseteq sources'
                    /\ dev_flags'[e] = dev_flags[e]
                    /\ set_flags_calls'[e] = set_flags_calls[e]
              /\ SelectSeq(devices', LAMBDA item : item.device # d)
                    = SelectSeq(devices, LAMBDA item : item.device # d)
      ]_vars

\* D3 was replugged while the removal of D1 stayed pending
C20_Witness ==
    /\ OpsOf(calls, "D3") = <<"add", "remove", "add">>
    /\ SigsOf(events, "D3") = <<"added", "changed">>
    /\ OpsOf(calls, "D1") = <<"add", "remove">>
    /\ SigsOf(events, "D1") = <<"added">>
    /\ Pending(devices, "D1")
    /\ SourcesOf(devices, sources, "D1") # {}
    /\ calls[Len(calls)] = Call("add", "D3", 200)

(* C19: emission order relative to mutation.  Every signal is delivered     *)
(* with its device's item in self->devices: ::added after the append,       *)
(* ::removed (from fu_device_list_remove and from the timeout callback)     *)
(* before g_ptr_array_remove.  A handler of ::removed(d) that calls         *)
(* fu_device_list_get_all gets d, one that calls fu_device_list_add(d)      *)
(* finds the item (::changed, no new item), and when g_signal_emit returns  *)
(* the item is dropped all the same; an item leaves the array at no other   *)
(* moment.                                                                  *)
C19_EmitBeforeDrop ==
    /\ [](emitting # NoEmission =>
            /\ InList(devices, emitting.device)
            /\ (emitting.sig = "removed") = (emitting.item # 0)
            /\ emitting.sig = "removed" =>
                 \E i \in DOMAIN devices : /\ devices[i].ptr = emitting.item
                                           /\ devices[i].device = emitting.device
            /\ result.fn = "get_all" => /\ snapshot = fu_device_list_get_all(devices)
                                        /\ emitting.device \in Range(snapshot))
    /\ [][events' # events => InList(devices', events'[Len(events')].device)]_vars
    /\ [][\A d \in Devices :
            emitting.sig = "removed" /\ emitting.device = d /\ IsCall("add", d) =>
                /\ events' = Append(events, Signal("changed", d))
                /\ devices' = devices
                /\ emitting' = emitting]_vars
    /\ [][emitting.sig = "removed" /\ emitting' = NoEmission =>
            /\ ~InList(devices', emitting.device)
            /\ devices' = g_ptr_array_remove(devices, emitting.item)
            /\ \A src \in sources' : src.item # emitting.item]_vars
    /\ [][\A d \in Devices :
            InList(devices, d) /\ ~InList(devices', d) =>
                /\ emitting.sig = "removed"
                /\ emitting.device = d
                /\ emitting' = NoEmission]_vars

\* the timeout callback is delivering ::removed(d); a handler has called
\* fu_device_list_add(d), which emitted ::changed, and then
\* fu_device_list_get_all, which returned d
C19_Witness ==
    \E d \in Devices :
        /\ emitting.sig = "removed"
        /\ emitting.device = d
        /\ emitting.source # 0
        /\ SigsOf(events, d) = <<"added", "removed", "changed">>
        /\ OpsOf(calls, d) = <<"add", "remove", "add">>
        /\ result.fn = "get_all"
        /\ d \in Range(snapshot)

\* the same inside fu_device_list_remove of a device with no remove delay
C19_WitnessImmediate ==
    \E d \in Devices :
        /\ emitting.sig = "removed"
        /\ emitting.device = d
        /\ emitting.source = 0
        /\ SigsOf(events, d) = <<"added", "removed", "changed">>
        /\ result.fn = "get_all"
        /\ d \in Range(snapshot)

\* the handler has returned and the item is gone although it was re-added
C19_WitnessDropped ==
    \E d \in Devices :
        /\ emitting = NoEmission
        /\ SigsOf(events, d) = <<"added", "removed", "changed">>
        /\ ~InList(devices, d)

====
